---- MODULE Spec2Model ----
(***************************************************************************)
(* The niruguard batch pipeline: the four raw procurement tables are       *)
(* loaded, deduplicated and linked into one contract-level table           *)
(* (load_and_merge, load_and_merge_v2, load_and_merge_v3), the red-flag    *)
(* features and the synthetic risk label are derived from it               *)
(* (engineer_features, engineer_features_v2, engineer_features_v3) and the *)
(* feature table is written out (main).                                    *)
(* A run ends "saved", "failed" (the loader returned None) or "crashed"    *)
(* (engineer_features raised and main() does not catch it).                *)
(* Next to the pipeline are the Streamlit dashboards that consume its      *)
(* products: the risk-analyzer app (load_model, prediction logic) and the  *)
(* Supplier 360 page (load_all_data, page body).                           *)
(*                                                                         *)
(* A text cell is a sequence of one-character strings; the missing value   *)
(* read_csv produces for an empty cell is NaN.  A cell of the value_amount *)
(* column and a cell of a date column carry a kind, because pandas keeps   *)
(* floats, strings and missing values side by side in such a column.       *)
(* Scores are kept in halves (1.5 is 3) so that they stay integers.        *)
(***************************************************************************)
EXTENDS Integers, Sequences, FiniteSets, TLC

VARIABLES version, sources, main_csv, awards_csv, contracts_csv,
          suppliers_csv, pc, merged_df, model_df, processed

\* the risk-analyzer dashboards (app, app_v2, app_v3)
VARIABLES strict_page_config, model_file, model_cache, model, submitted,
          app_pc, predictions

\* the Supplier 360 page
VARIABLES parties_file, all_data_cache, page_df, page_pc

pipeline_vars == <<version, sources, main_csv, awards_csv, contracts_csv,
                   suppliers_csv, pc, merged_df, model_df, processed>>

app_vars == <<strict_page_config, model_file, model_cache, model, submitted,
              app_pc, predictions>>

page_vars == <<parties_file, all_data_cache, page_df, page_pc>>

vars == <<pipeline_vars, app_vars, page_vars>>

(***************************************************************************)
(* Bounds of the model.                                                    *)
(***************************************************************************)
MaxRows == 4
MaxContracts == 4
MaxNamed == 3
MaxNoise == 2
MaxDated == 2
MaxPredictions == 2

(***************************************************************************)
(* Values.                                                                 *)
(***************************************************************************)
NaN == <<"NaN">>

isna(x) == x = NaN

NaNAmount == [kind |-> "nan", val |-> 0]
Float(n) == [kind |-> "float", val |-> n]
Text(s) == [kind |-> "str", val |-> s]

NaNDate == [kind |-> "nan", day |-> 0]
BadDate == [kind |-> "bad", day |-> 0]
DateText(d) == [kind |-> "date", day |-> d]
\* a timestamp written with a UTC offset, as in 2020-01-02T00:00:00+03:00
DateTextTz(d) == [kind |-> "date_tz", day |-> d]
NaT == -1

Range(s) == {s[i] : i \in DOMAIN s}

(***************************************************************************)
(* str methods.                                                            *)
(***************************************************************************)
upper_char(c) ==
    CASE c = "a" -> "A" [] c = "b" -> "B" [] c = "c" -> "C" [] c = "d" -> "D"
      [] c = "e" -> "E" [] c = "i" -> "I" [] c = "m" -> "M" [] c = "n" -> "N"
      [] c = "o" -> "O" [] c = "p" -> "P" [] c = "r" -> "R" [] c = "t" -> "T"
      [] OTHER -> c

lower_char(c) ==
    CASE c = "A" -> "a" [] c = "B" -> "b" [] c = "C" -> "c" [] c = "D" -> "d"
      [] c = "E" -> "e" [] c = "I" -> "i" [] c = "M" -> "m" [] c = "N" -> "n"
      [] c = "O" -> "o" [] c = "P" -> "p" [] c = "R" -> "r" [] c = "T" -> "t"
      [] OTHER -> c

upper(s) == [i \in DOMAIN s |-> upper_char(s[i])]
lower(s) == [i \in DOMAIN s |-> lower_char(s[i])]

RECURSIVE lstrip(_)
lstrip(s) == IF s # <<>> /\ Head(s) = " " THEN lstrip(Tail(s)) ELSE s

RECURSIVE rstrip(_)
rstrip(s) ==
    IF s # <<>> /\ s[Len(s)] = " " THEN rstrip(SubSeq(s, 1, Len(s) - 1)) ELSE s

strip(s) == rstrip(lstrip(s))

\* str(x): the text of a missing value is "nan"
str(x) == IF isna(x) THEN <<"n", "a", "n">> ELSE x

(***************************************************************************)
(* clean_currency.  The text of an amount is over the characters           *)
(* "0".."9", "-", "+", ",", " ", "K", "E", "S" and "x"; float() accepts an *)
(* optional sign followed by digits.                                       *)
(***************************************************************************)
\* the first occurrence only, as replace(old, '', 1)
RECURSIVE replace_first_only(_, _)
replace_first_only(s, old) ==
    IF Len(s) = 0 THEN <<>>
    ELSE IF Len(s) >= Len(old) /\ SubSeq(s, 1, Len(old)) = old
         THEN SubSeq(s, Len(old) + 1, Len(s))
         ELSE <<Head(s)>> \o replace_first_only(Tail(s), old)

RECURSIVE replace(_, _)
replace(s, old) ==
    IF Len(s) = 0 THEN <<>>
    ELSE IF Len(s) >= Len(old) /\ SubSeq(s, 1, Len(old)) = old
         THEN replace(SubSeq(s, Len(old) + 1, Len(s)), old)
         ELSE <<Head(s)>> \o replace(Tail(s), old)

Digits == {"0", "1", "2", "3", "4", "5", "6", "7", "8", "9"}

digit_value(c) ==
    CASE c = "0" -> 0 [] c = "1" -> 1 [] c = "2" -> 2 [] c = "3" -> 3
      [] c = "4" -> 4 [] c = "5" -> 5 [] c = "6" -> 6 [] c = "7" -> 7
      [] c = "8" -> 8 [] c = "9" -> 9

RECURSIVE digits_value(_)
digits_value(s) ==
    IF Len(s) = 0 THEN 0
    ELSE 10 * digits_value(SubSeq(s, 1, Len(s) - 1)) + digit_value(s[Len(s)])

is_digits(s) == Len(s) > 0 /\ \A i \in DOMAIN s : s[i] \in Digits

\* float(s) raises ValueError unless s is a numeral
float_ok(s) ==
    \/ is_digits(s)
    \/ Len(s) > 1 /\ Head(s) \in {"-", "+"} /\ is_digits(Tail(s))

\* the sign dropped
float_magnitude(s) ==
    IF Head(s) \in {"-", "+"} THEN digits_value(Tail(s)) ELSE digits_value(s)

float(s) ==
    IF Head(s) = "-" THEN 0 - digits_value(Tail(s))
    ELSE IF Head(s) = "+" THEN digits_value(Tail(s))
    ELSE digits_value(s)

\* on a parse failure the digits of the text in place of 0
clean_currency_digits_on_failure(x) ==
    IF x.kind = "nan" THEN 0
    ELSE IF x.kind = "float" THEN x.val
    ELSE LET clean_str == replace(replace(replace(x.val, <<"K", "E", "S">>),
                                          <<",">>), <<" ">>)
         IN  IF float_ok(clean_str) THEN float(clean_str)
             ELSE digits_value(SelectSeq(clean_str, LAMBDA c : c \in Digits))

clean_currency(x) ==
    IF x.kind = "nan" THEN 0
    ELSE IF x.kind = "float" THEN x.val
    ELSE LET clean_str == replace(replace(replace(x.val, <<"K", "E", "S">>),
                                          <<",">>), <<" ">>)
         IN  IF float_ok(clean_str) THEN float(clean_str) ELSE 0

(***************************************************************************)
(* pandas: drop_duplicates(subset=['_link_main'], keep='first'), merge,    *)
(* to_datetime(errors='coerce'), value_counts, map and fillna.             *)
(***************************************************************************)
\* keep='last'
drop_duplicates_keep_last(df) ==
    LET keep(i) == \A j \in (i + 1)..Len(df) : df[j]._link_main # df[i]._link_main
        RECURSIVE pick(_)
        pick(i) == IF i > Len(df) THEN <<>>
                   ELSE IF keep(i) THEN <<df[i]>> \o pick(i + 1)
                   ELSE pick(i + 1)
    IN  pick(1)

\* one pass that removes the first repeated row only
drop_duplicates_first_repeat_only(df) ==
    LET dup(i) == \E j \in 1..(i - 1) : df[j]._link_main = df[i]._link_main
        drop(i) == dup(i) /\ \A j \in 1..(i - 1) : ~dup(j)
        RECURSIVE pick(_)
        pick(i) == IF i > Len(df) THEN <<>>
                   ELSE IF drop(i) THEN pick(i + 1)
                   ELSE <<df[i]>> \o pick(i + 1)
    IN  pick(1)

drop_duplicates(df) ==
    LET keep(i) == \A j \in 1..(i - 1) : df[j]._link_main # df[i]._link_main
        RECURSIVE pick(_)
        pick(i) == IF i > Len(df) THEN <<>>
                   ELSE IF keep(i) THEN <<df[i]>> \o pick(i + 1)
                   ELSE pick(i + 1)
    IN  pick(1)

\* the row blocks of a merge, one after the other
RECURSIVE concat(_)
concat(blocks) ==
    IF Len(blocks) = 0 THEN <<>> ELSE Head(blocks) \o concat(Tail(blocks))

\* how='left' in place of how='inner': a tender without an award is kept
merge_inner_how_left(left, right) ==
    concat([n \in DOMAIN left |->
        LET l == left[n]
            m == SelectSeq(right, LAMBDA r : r._link_main = l._link)
        IN  IF Len(m) = 0
            THEN <<[_link |-> l._link,
                    tender_procurementMethod |-> l.tender_procurementMethod,
                    _link_main |-> NaN,
                    value_amount |-> NaNAmount]>>
            ELSE [i \in 1..Len(m) |->
                    [_link |-> l._link,
                     tender_procurementMethod |-> l.tender_procurementMethod,
                     _link_main |-> m[i]._link_main,
                     value_amount |-> m[i].value_amount]]])

\* how='inner', left_on='_link', right_on='_link_main': the order of the
\* left keys is kept, and a missing key matches a missing key
merge_inner(left, right) ==
    concat([n \in DOMAIN left |->
        LET l == left[n]
            m == SelectSeq(right, LAMBDA r : r._link_main = l._link)
        IN  [i \in 1..Len(m) |->
                [_link |-> l._link,
                 tender_procurementMethod |-> l.tender_procurementMethod,
                 _link_main |-> m[i]._link_main,
                 value_amount |-> m[i].value_amount]]])

\* how='left', on='_link_main': a left row without a match gets the right
\* table's other columns missing
merge_left(left, right, missing) ==
    concat([n \in DOMAIN left |->
        LET l == left[n]
            m == SelectSeq(right, LAMBDA r : r._link_main = l._link_main)
        IN  IF Len(m) = 0 THEN <<l @@ missing>>
            ELSE [i \in 1..Len(m) |-> l @@ m[i]]])

to_datetime(x) == IF x.kind \in {"date", "date_tz"} THEN x.day ELSE NaT

\* the parsed column is timezone-aware when its timestamps carry an offset;
\* a column with nothing to parse is a timezone-naive column of NaT
tz_aware(col) == \E i \in DOMAIN col : col[i].kind = "date_tz"

\* NaT compared as the number that stands for it
date_lt_nat_first(a, b) == a < b

\* NaT compares False with everything
date_lt(a, b) == a # NaT /\ b # NaT /\ a < b

\* the count of the distinct values: 1 for each
value_counts_of_unique(col) ==
    [v \in Range(col) \ {NaN} |-> 1]

\* value_counts() leaves the missing values out
value_counts(col) ==
    [v \in Range(col) \ {NaN} |-> Cardinality({i \in DOMAIN col : col[i] = v})]

\* the missing values counted like a value of their own
map_count_missing(col, counts) ==
    [i \in DOMAIN col |->
        IF col[i] \in DOMAIN counts THEN counts[col[i]]
        ELSE Cardinality({j \in DOMAIN col : isna(col[j])})]

\* the occurrences of the value up to and including the row
map_running_count(col, counts) ==
    [i \in DOMAIN col |->
        IF col[i] \in DOMAIN counts
        THEN Cardinality({j \in 1..i : col[j] = col[i]}) ELSE 1]

\* col.map(counts).fillna(1)
map_fillna(col, counts) ==
    [i \in DOMAIN col |-> IF col[i] \in DOMAIN counts THEN counts[col[i]] ELSE 1]

None == [is_none |-> TRUE, rows |-> <<>>]
DataFrame(rows) == [is_none |-> FALSE, rows |-> rows]

(***************************************************************************)
(* Source Loader and Linkage Engine.  A raw table is the sequence of the   *)
(* rows of its file, in file order, with the columns the loaders read.     *)
(***************************************************************************)
load_and_merge(main, awards) ==
    LET main_df == main
        awards_df == drop_duplicates(awards)
    IN  DataFrame(merge_inner(main_df, awards_df))

contracts_missing == [dateSigned |-> NaNDate, period_startDate |-> NaNDate]

suppliers_missing_v2 == [name |-> NaN]

suppliers_missing_v3 == [supplier_id |-> NaN, name |-> NaN]

\* .str.upper() without .str.strip()
normalize_name_upper_only(x) == IF isna(x) THEN NaN ELSE upper(x)

\* suppliers_df['name'].str.strip().str.upper(): a missing name stays missing
normalize_name(x) == IF isna(x) THEN NaN ELSE upper(strip(x))

\* a name column whose cells are all missing is read as float64, and the
\* .str accessor raises AttributeError on it
str_accessor_raises(suppliers) ==
    Len(suppliers) > 0 /\ \A i \in DOMAIN suppliers : isna(suppliers[i].name)

load_and_merge_v2(main, awards, contracts, suppliers) ==
    IF str_accessor_raises(suppliers) THEN None
    ELSE
    LET main_df == main
        awards_df == drop_duplicates(awards)
        contracts_df == drop_duplicates(contracts)
        suppliers_df ==
            drop_duplicates([i \in DOMAIN suppliers |->
                [_link_main |-> suppliers[i]._link_main,
                 name |-> normalize_name(suppliers[i].name)]])
        merged_1 == merge_inner(main_df, awards_df)
        merged_2 == merge_left(merged_1, contracts_df, contracts_missing)
    IN  DataFrame(merge_left(merged_2, suppliers_df, suppliers_missing_v2))

load_and_merge_v3(main, awards, contracts, suppliers) ==
    LET main_df == main
        awards_df == drop_duplicates(awards)
        contracts_df == drop_duplicates(contracts)
        suppliers_df ==
            drop_duplicates([i \in DOMAIN suppliers |->
                [_link_main |-> suppliers[i]._link_main,
                 supplier_id |-> suppliers[i].id,
                 name |-> suppliers[i].name]])
        merged_1 == merge_inner(main_df, awards_df)
        merged_2 == merge_left(merged_1, contracts_df, contracts_missing)
    IN  DataFrame(merge_left(merged_2, suppliers_df, suppliers_missing_v3))

(***************************************************************************)
(* Feature Derivation Engine and Risk Scorer.                              *)
(***************************************************************************)
\* the comparison without lower()
is_direct_procurement_exact(x) ==
    IF str(x) = <<"d", "i", "r", "e", "c", "t">> THEN 1 ELSE 0

is_direct_procurement(x) ==
    IF lower(str(x)) = <<"d", "i", "r", "e", "c", "t">> THEN 1 ELSE 0

\* >= 1000 in place of > 1000
is_round_amount_from_1000(x) == IF x >= 1000 /\ x % 1000 = 0 THEN 1 ELSE 0

is_round_amount(x) == IF x > 1000 /\ x % 1000 = 0 THEN 1 ELSE 0

suspicious_timing(row) ==
    LET date_signed == to_datetime(row.dateSigned)
        start_date == to_datetime(row.period_startDate)
    IN  IF date_lt(start_date, date_signed) THEN 1 ELSE 0

\* df.isnull().sum(axis=1) over the four columns of the v1 linked table
missing_data_count(row) ==
    (IF isna(row._link) THEN 1 ELSE 0)
    + (IF isna(row.tender_procurementMethod) THEN 1 ELSE 0)
    + (IF isna(row._link_main) THEN 1 ELSE 0)
    + (IF row.value_amount.kind = "nan" THEN 1 ELSE 0)

\* < 3 in place of <= 3
new_supplier_direct_deal_below_3(count, direct) ==
    IF count < 3 /\ direct = 1 THEN 1 ELSE 0

new_supplier_direct_deal(count, direct) ==
    IF count <= 3 /\ direct = 1 THEN 1 ELSE 0

\* in halves: 2*direct + 1.5*round + (missing_data_count >= 1)
risk_score_v1(direct, round, missing) ==
    direct * 4 + round * 3 + (IF missing >= 1 THEN 1 ELSE 0) * 2

\* in halves: risk_score >= 1.0 in place of >= 1.5
risk_label_v1_from_1(score) == IF score >= 2 THEN 1 ELSE 0

\* in halves: risk_score >= 1.5
risk_label_v1(score) == IF score >= 3 THEN 1 ELSE 0

\* the new-supplier flag subtracted
risk_score_v2_minus(direct, round, timing, new_supplier) ==
    direct * 3 + round * 2 + timing * 4 - new_supplier * 5

\* in halves: 1.5*direct + 1.0*round + 2.0*timing + 2.5*new_supplier
risk_score_v2(direct, round, timing, new_supplier) ==
    direct * 3 + round * 2 + timing * 4 + new_supplier * 5

\* > 2.0 in place of >= 2.0
risk_label_v2_strict(score) == IF score > 4 THEN 1 ELSE 0

\* in halves: risk_score >= 2.0
risk_label_v2(score) == IF score >= 4 THEN 1 ELSE 0

engineer_features(df) ==
    [i \in DOMAIN df |->
        LET amount == clean_currency(df[i].value_amount)
            direct == is_direct_procurement(df[i].tender_procurementMethod)
            round == is_round_amount(amount)
            missing == missing_data_count(df[i])
        IN  [amount |-> amount,
             is_direct_procurement |-> direct,
             is_round_amount |-> round,
             missing_data_count |-> missing,
             risk_label |-> risk_label_v1(risk_score_v1(direct, round, missing))]]

supplier_award_count_v2(df) ==
    LET col == [i \in DOMAIN df |-> df[i].name]
    IN  map_fillna(col, value_counts(col))

engineer_features_v2(df) ==
    LET counts == supplier_award_count_v2(df)
    IN  [i \in DOMAIN df |->
        LET amount == clean_currency(df[i].value_amount)
            direct == is_direct_procurement(df[i].tender_procurementMethod)
            round == is_round_amount(amount)
            timing == suspicious_timing(df[i])
            new_supplier == new_supplier_direct_deal(counts[i], direct)
        IN  [amount |-> amount,
             is_direct_procurement |-> direct,
             is_round_amount |-> round,
             suspicious_timing |-> timing,
             supplier_award_count |-> counts[i],
             new_supplier_direct_deal |-> new_supplier,
             risk_label |->
                 risk_label_v2(risk_score_v2(direct, round, timing, new_supplier))]]

\* the awards counted by display name
supplier_award_count_v3_by_name(df) ==
    LET col == [i \in DOMAIN df |-> df[i].name]
    IN  map_fillna(col, value_counts(col))

supplier_award_count_v3(df) ==
    LET col == [i \in DOMAIN df |-> df[i].supplier_id]
    IN  map_fillna(col, value_counts(col))

engineer_features_v3(df) ==
    LET counts == supplier_award_count_v3(df)
    IN  [i \in DOMAIN df |->
        LET amount == clean_currency(df[i].value_amount)
            direct == is_direct_procurement(df[i].tender_procurementMethod)
            round == is_round_amount(amount)
            timing == suspicious_timing(df[i])
            new_supplier == new_supplier_direct_deal(counts[i], direct)
        IN  [amount |-> amount,
             is_direct_procurement |-> direct,
             is_round_amount |-> round,
             suspicious_timing |-> timing,
             supplier_award_count |-> counts[i],
             new_supplier_direct_deal |-> new_supplier,
             risk_label |->
                 risk_label_v2(risk_score_v2(direct, round, timing, new_supplier)),
             supplier_id |-> df[i].supplier_id,
             supplier_name |-> df[i].name]]

(***************************************************************************)
(* main(): load and link, derive the features, write the feature table.    *)
(***************************************************************************)
\* the files a version reads (usecols names the columns it requires)
SourceFiles == {"main", "awards", "contracts", "suppliers"}

required_sources(v) == IF v = 1 THEN {"main", "awards"} ELSE SourceFiles

\* pd.read_csv raises FileNotFoundError for a file that is not there and
\* ValueError for a usecols column the file does not have
read_csv_raises(v, src) == \E f \in required_sources(v) : src[f] # "ok"

\* start_date < date_signed raises TypeError when one parsed column is
\* timezone-aware and the other is not
compare_raises(df) ==
    tz_aware([i \in DOMAIN df |-> df[i].period_startDate])
        # tz_aware([i \in DOMAIN df |-> df[i].dateSigned])

\* engineer_features has no date column; v2 and v3 compare the two
engineer_features_raises(v, df) == v \in {2, 3} /\ compare_raises(df)

\* the except clause of the loader turns every exception into None
LoadAndMerge ==
    /\ pc = "start"
    /\ merged_df' =
         (IF read_csv_raises(version, sources) THEN None
          ELSE CASE version = 1 -> load_and_merge(main_csv, awards_csv)
            [] version = 2 -> load_and_merge_v2(main_csv, awards_csv,
                                                contracts_csv, suppliers_csv)
            [] version = 3 -> load_and_merge_v3(main_csv, awards_csv,
                                                contracts_csv, suppliers_csv))
    /\ pc' = IF merged_df'.is_none THEN "failed" ELSE "merged"
    /\ UNCHANGED <<version, sources, main_csv, awards_csv, contracts_csv,
                   suppliers_csv,
                   model_df, processed>>
    /\ UNCHANGED <<app_vars, page_vars>>

\* main() does not catch what engineer_features raises: the run ends there
EngineerFeatures ==
    /\ pc = "merged"
    /\ model_df' =
         (IF engineer_features_raises(version, merged_df.rows) THEN model_df
          ELSE CASE version = 1 -> engineer_features(merged_df.rows)
            [] version = 2 -> engineer_features_v2(merged_df.rows)
            [] version = 3 -> engineer_features_v3(merged_df.rows))
    /\ pc' = IF engineer_features_raises(version, merged_df.rows)
             THEN "crashed" ELSE "engineered"
    /\ UNCHANGED <<version, sources, main_csv, awards_csv, contracts_csv,
                   suppliers_csv,
                   merged_df, processed>>
    /\ UNCHANGED <<app_vars, page_vars>>

\* model_df.to_csv(PROCESSED_DATA_PATH, index=False)
Save ==
    /\ pc = "engineered"
    /\ processed' = [exists |-> TRUE, rows |-> model_df]
    /\ pc' = "saved"
    /\ UNCHANGED <<version, sources, main_csv, awards_csv, contracts_csv,
                   suppliers_csv,
                   merged_df, model_df>>
    /\ UNCHANGED <<app_vars, page_vars>>

Next == LoadAndMerge \/ EngineerFeatures \/ Save

(***************************************************************************)
(* The risk-analyzer dashboard (app.py, app_v2.py, app_v3.py; version      *)
(* names the app).  Streamlit runs the script from the top on the first    *)
(* visit and on every interaction; st.cache_data keeps what load_model     *)
(* returned, None included, and shows the st.error of the cached call      *)
(* again.  Streamlit releases differ on st.set_page_config after another   *)
(* st command: strict_page_config says that the release raises             *)
(* StreamlitAPIException for it.                                           *)
(***************************************************************************)
\* a browser visit or refresh, or a press of the form's submit button when
\* the last run has drawn the form
AppRerun ==
    /\ app_pc \in {"new", "form", "exception"}
    /\ submitted' \in (IF app_pc = "form" /\ predictions < MaxPredictions
                       THEN BOOLEAN ELSE {FALSE})
    /\ model' = "unset"
    /\ app_pc' = "load"
    /\ UNCHANGED <<strict_page_config, model_file, model_cache, predictions>>
    /\ UNCHANGED <<pipeline_vars, page_vars>>

\* joblib.load(MODEL_PATH) inside try/except: the model, or st.error and None
load_model(file) == IF file = "ok" THEN "model" ELSE "None"

\* model = load_model(), through the cache
LoadModel ==
    /\ app_pc = "load"
    /\ model' = IF model_cache = "empty" THEN load_model(model_file)
                ELSE model_cache
    /\ model_cache' = model'
    /\ app_pc' = "page_config"
    /\ UNCHANGED <<strict_page_config, model_file, submitted, predictions>>
    /\ UNCHANGED <<pipeline_vars, page_vars>>

\* load_model has called st.error in this run
st_error_called == model = "None"

\* st.set_page_config(...), then the header and the form
SetPageConfig ==
    /\ app_pc = "page_config"
    /\ app_pc' = IF strict_page_config /\ st_error_called
                 THEN "exception" ELSE "logic"
    /\ UNCHANGED <<strict_page_config, model_file, model_cache, model,
                   submitted, predictions>>
    /\ UNCHANGED <<pipeline_vars, page_vars>>

\* if model is not None and submitted: ... model.predict_proba(input_data)
PredictionLogic ==
    /\ app_pc = "logic"
    /\ predictions' = IF model # "None" /\ submitted
                      THEN predictions + 1 ELSE predictions
    /\ app_pc' = "form"
    /\ UNCHANGED <<strict_page_config, model_file, model_cache, model,
                   submitted>>
    /\ UNCHANGED <<pipeline_vars, page_vars>>

\* train_model*.py writes the artifact while the dashboard is up
TrainModel ==
    /\ app_pc # "closed"
    /\ model_file # "ok"
    /\ model_file' = "ok"
    /\ UNCHANGED <<strict_page_config, model_cache, model, submitted, app_pc,
                   predictions>>
    /\ UNCHANGED <<pipeline_vars, page_vars>>

NextApp == AppRerun \/ LoadModel \/ SetPageConfig \/ PredictionLogic \/ TrainModel

(***************************************************************************)
(* The Supplier 360 page (pages/2_Supplier_360.py).  It reads the feature  *)
(* table the v3 pipeline writes and parties.csv.  What load_all_data       *)
(* returns is a DataFrame or the pair (None, None).                        *)
(***************************************************************************)
NonePair == [kind |-> "tuple", rows |-> <<>>]

\* the address book has no entry of these suppliers: official_name is
\* filled from supplier_name
load_all_data(table, parties) ==
    IF ~table.exists THEN NonePair
    ELSE IF parties # "ok" THEN NonePair
    ELSE [kind |-> "DataFrame",
          rows |-> [i \in DOMAIN table.rows |->
                      [table.rows[i] EXCEPT !.supplier_id = str(@)]
                      @@ [official_name |-> table.rows[i].supplier_name]]]

\* x is not None
is_not_None(x) == x.kind # "None"

\* a visit or an interaction: st.set_page_config, title
PageRerun ==
    /\ page_pc \in {"new", "selection", "unavailable", "exception"}
    /\ page_df' = [kind |-> "unset", rows |-> <<>>]
    /\ page_pc' = "load"
    /\ UNCHANGED <<parties_file, all_data_cache>>
    /\ UNCHANGED <<pipeline_vars, app_vars>>

\* df = load_all_data(), through the cache
LoadAllData ==
    /\ page_pc = "load"
    /\ page_df' = IF all_data_cache.kind = "unset"
                  THEN load_all_data(processed, parties_file)
                  ELSE all_data_cache
    /\ all_data_cache' = page_df'
    /\ page_pc' = "body"
    /\ UNCHANGED parties_file
    /\ UNCHANGED <<pipeline_vars, app_vars>>

\* if df is not None: the supplier selection and the dossier, which start
\* with df.dropna(...); else: st.error("The main database could not be
\* loaded ...").  A tuple has no dropna: AttributeError.
PageBody ==
    /\ page_pc = "body"
    /\ page_pc' = IF is_not_None(page_df)
                  THEN IF page_df.kind = "DataFrame" THEN "selection"
                       ELSE "exception"
                  ELSE "unavailable"
    /\ UNCHANGED <<parties_file, all_data_cache, page_df>>
    /\ UNCHANGED <<pipeline_vars, app_vars>>

NextPage ==
    \/ LoadAndMerge \/ EngineerFeatures \/ Save
    \/ PageRerun \/ LoadAllData \/ PageBody

(***************************************************************************)
(* Inputs.  The raw files are on disk before the run; nothing is written.  *)
(***************************************************************************)
Versions == {1, 2, 3}

Direct == <<"D", "i", "r", "e", "c", "t">>
Open == <<"o", "p", "e", "n">>

key_text(i) ==
    CASE i = 1 -> <<"1">> [] i = 2 -> <<"2">> [] i = 3 -> <<"3">>
      [] i = 4 -> <<"4">> [] i = 5 -> <<"5">> [] i = 6 -> <<"6">>

S1 == <<"S", "1">>
S2 == <<"S", "2">>
Acme == <<" ", "A", "c", "m", "e">>
Beta == <<"b", "e", "t", "a">>

NoOutput == [exists |-> FALSE, rows |-> <<>>]

AllPresent == [f \in SourceFiles |-> "ok"]

AppClosed ==
    /\ strict_page_config = FALSE
    /\ model_file = "ok"
    /\ model_cache = "empty"
    /\ model = "unset"
    /\ submitted = FALSE
    /\ app_pc = "closed"
    /\ predictions = 0

UnsetFrame == [kind |-> "unset", rows |-> <<>>]

PageClosed ==
    /\ parties_file = "ok"
    /\ all_data_cache = UnsetFrame
    /\ page_df = UnsetFrame
    /\ page_pc = "closed"

InitRun ==
    /\ version \in Versions
    /\ sources = AllPresent
    /\ AppClosed
    /\ PageClosed
    /\ pc = "start"
    /\ merged_df = None
    /\ model_df = <<>>
    /\ processed = NoOutput

\* Arbitrary small tables: keys repeat within a table and across tables.
\* The v1 pipeline reads main.csv and awards.csv only.
LinkKeys == {key_text(1), key_text(2)}

MainRowsLink == [_link : LinkKeys, tender_procurementMethod : {Direct}]

AwardRowsLink == [_link_main : LinkKeys, value_amount : {Float(5000), Float(700)}]

ContractRowsLink ==
    [_link_main : LinkKeys, dateSigned : {DateText(2)},
     period_startDate : {DateText(1), NaNDate}]

SupplierRowsLink ==
    {[_link_main |-> k, id |-> r[1], name |-> r[2]] :
        k \in LinkKeys, r \in {<<S1, Acme>>, <<S2, Beta>>}}

InitLink ==
    /\ InitRun
    /\ \E a, b, c, d \in 0..MaxRows :
         /\ a + b + c + d <= MaxRows
         /\ version = 1 => c = 0 /\ d = 0
         /\ main_csv \in [1..a -> MainRowsLink]
         /\ awards_csv \in [1..b -> AwardRowsLink]
         /\ contracts_csv \in [1..c -> ContractRowsLink]
         /\ suppliers_csv \in [1..d -> SupplierRowsLink]

Spec == InitLink /\ [][Next]_vars

\* A population of awarded contracts with distinct keys: contract i has one
\* tender row and one award row, and may have a timing row and a supplier
\* reference.  The first contract draws its amount and dates freely.
Absent == <<"absent">>

SupplierRefs ==
    {[id |-> S1, name |-> Acme], [id |-> S2, name |-> Beta]}

NoSupplierRef == [id |-> Absent, name |-> Absent]

UnnamedRef == [id |-> NaN, name |-> NaN]

Suspicious == [dateSigned |-> DateText(2), period_startDate |-> DateText(1)]

NoTiming == [dateSigned |-> BadDate, period_startDate |-> BadDate]

FirstProfiles ==
    [method : {Direct, Open},
     amount : {Float(5000), Float(1500), NaNAmount},
     timing : {Suspicious, NoTiming},
     supplier : SupplierRefs \cup {NoSupplierRef, UnnamedRef}]

OtherProfiles ==
    [method : {Open},
     amount : {Float(1500)},
     timing : {NoTiming},
     supplier : SupplierRefs \cup {NoSupplierRef}]

main_of(p) ==
    [i \in DOMAIN p |->
        [_link |-> key_text(i), tender_procurementMethod |-> p[i].method]]

awards_of(p) ==
    [i \in DOMAIN p |->
        [_link_main |-> key_text(i), value_amount |-> p[i].amount]]

contracts_of(p) ==
    LET all == [i \in DOMAIN p |->
                   [_link_main |-> key_text(i),
                    dateSigned |-> p[i].timing.dateSigned,
                    period_startDate |-> p[i].timing.period_startDate]]
    IN  SelectSeq(all, LAMBDA r : r.dateSigned # BadDate)

suppliers_of(p) ==
    LET all == [i \in DOMAIN p |->
                   [_link_main |-> key_text(i),
                    id |-> p[i].supplier.id,
                    name |-> p[i].supplier.name]]
    IN  SelectSeq(all, LAMBDA r : r.id # Absent)

InitFeat ==
    /\ InitRun
    /\ \E n \in 1..MaxContracts, first \in FirstProfiles :
         \E others \in [2..n -> OtherProfiles] :
            LET p == [i \in 1..n |-> IF i = 1 THEN first ELSE others[i]]
            IN
            /\ main_csv = main_of(p)
            /\ awards_csv = awards_of(p)
            /\ contracts_csv = contracts_of(p)
            /\ suppliers_csv = suppliers_of(p)

SpecFeat == InitFeat /\ [][Next]_vars

\* A population whose supplier references vary in id and in the spelling of
\* the name, for the two identity schemes (v2: name, v3: id).
AcmeUpper == <<"A", "C", "M", "E">>

IdentNames == {Acme, AcmeUpper, Beta, NaN}

IdentRefs == [id : {S1, S2}, name : IdentNames]

IdentProfiles ==
    [method : {Direct},
     amount : {Float(1500)},
     timing : {NoTiming},
     supplier : IdentRefs \cup {NoSupplierRef}]

InitIdent ==
    /\ version \in {2, 3}
    /\ sources = AllPresent
    /\ AppClosed
    /\ PageClosed
    /\ pc = "start"
    /\ merged_df = None
    /\ model_df = <<>>
    /\ processed = NoOutput
    /\ \E n \in 1..MaxNamed :
         \E p \in [1..n -> IdentProfiles] :
            /\ main_csv = main_of(p)
            /\ awards_csv = awards_of(p)
            /\ contracts_csv = contracts_of(p)
            /\ suppliers_csv = suppliers_of(p)

SpecIdent == InitIdent /\ [][Next]_vars

\* Two contracts, the first with a procurement method or an amount cell out
\* of the variety below.  An amount column with a text cell is a column of
\* text (read_csv converts a column only when every cell is a numeral), so
\* the second contract's amount is text when the first one's is.
MethodCells ==
    {NaN,
     <<"d", "i", "r", "e", "c", "t">>,
     <<"D", "I", "R", "E", "C", "T">>,
     <<"D", "i", "r", "e", "c", "t">>,
     <<"d", "I", "r", "E", "c", "T">>,
     <<" ", "d", "i", "r", "e", "c", "t">>,
     <<"d", "i", "r", "e", "c", "t", " ">>,
     <<"d", "i", "r", "e", "c", "t", "e", "d">>,
     <<"d", "i", "r", "e", "c">>,
     <<"i", "n", "d", "i", "r", "e", "c", "t">>,
     <<"n", "a", "n", "e">>,
     <<"o", "p", "e", "n">>}

AmountFloats ==
    {Float(0 - 2000), Float(0), Float(500), Float(1000), Float(1500),
     Float(2000), Float(1000000), Float(1000001)}

NoiseTokens ==
    {<<",">>, <<" ">>, <<"K", "E", "S">>, <<"x">>, <<"-">>, <<"+">>}

insert_at(s, pos, token) == SubSeq(s, 1, pos) \o token \o SubSeq(s, pos + 1, Len(s))

\* the texts made from s by putting in up to k tokens, anywhere
RECURSIVE noisy(_, _)
noisy(s, k) ==
    IF k = 0 THEN {s}
    ELSE LET less == noisy(s, k - 1)
         IN  less \cup UNION {{insert_at(t, pos, token) :
                                   pos \in 0..Len(t), token \in NoiseTokens} :
                               t \in less}

AmountExamples ==
    {<<"K", "E", "S", " ", "1", ",", "0", "0", "0", ",", "0", "0", "0">>,
     <<"1", "0", "0", "0", "0", "0", "1">>,
     <<"K", "E", "S", " ", "-", "2", ",", "0", "0", "0">>,
     <<"5", "0", "0">>,
     <<"K", "E", "S">>}

AmountTexts ==
    {Text(t) : t \in noisy(<<"2", "0", "0", "0">>, MaxNoise) \cup AmountExamples}

companion(amount) ==
    IF amount.kind = "str"
    THEN Text(<<"K", "E", "S", " ", "1", ",", "5", "0", "0">>)
    ELSE Float(1500)

CellProfiles ==
    [method : MethodCells, amount : {Float(5000)},
     timing : {NoTiming}, supplier : {NoSupplierRef}]
    \cup
    [method : {Direct}, amount : AmountFloats \cup {NaNAmount} \cup AmountTexts,
     timing : {NoTiming}, supplier : {NoSupplierRef}]

InitCell ==
    /\ InitRun
    /\ \E first \in CellProfiles :
         LET second == [method |-> Open, amount |-> companion(first.amount),
                        timing |-> NoTiming, supplier |-> NoSupplierRef]
             p == <<first, second>>
         IN
         /\ main_csv = main_of(p)
         /\ awards_csv = awards_of(p)
         /\ contracts_csv = contracts_of(p)
         /\ suppliers_csv = suppliers_of(p)

SpecCell == InitCell /\ [][Next]_vars

\* A population whose date cells vary: missing, unparseable, or one of two
\* days.  All the timestamps of a column are written the same way, with a UTC
\* offset or without.  The first contract draws its two cells freely and its
\* amount out of a text column.
NoTimingRow == [kind |-> "absent", day |-> 0]

stamp(tz, d) == IF tz THEN DateTextTz(d) ELSE DateText(d)

date_cells(tz) == {NaNDate, BadDate, stamp(tz, 1), stamp(tz, 2)}

Timings(signed_tz, start_tz) ==
    [dateSigned : date_cells(signed_tz), period_startDate : date_cells(start_tz)]
    \cup {[dateSigned |-> NoTimingRow, period_startDate |-> NoTimingRow]}

OtherTimings(signed_tz, start_tz) ==
    {[dateSigned |-> NoTimingRow, period_startDate |-> NoTimingRow],
     [dateSigned |-> stamp(signed_tz, 2), period_startDate |-> stamp(start_tz, 1)],
     [dateSigned |-> stamp(signed_tz, 1), period_startDate |-> NaNDate],
     [dateSigned |-> BadDate, period_startDate |-> stamp(start_tz, 2)]}

DatedAmounts ==
    {NaNAmount,
     Text(<<"K", "E", "S", " ", "2", ",", "0", "0", "0">>),
     Text(<<"2", "x", "0", "0", "0">>)}

contracts_dated(p) ==
    LET all == [i \in DOMAIN p |->
                   [_link_main |-> key_text(i),
                    dateSigned |-> p[i].timing.dateSigned,
                    period_startDate |-> p[i].timing.period_startDate]]
    IN  SelectSeq(all, LAMBDA r : r.dateSigned # NoTimingRow)

InitDates ==
    /\ InitRun
    /\ \E n \in 1..MaxDated, signed_tz \in BOOLEAN, start_tz \in BOOLEAN :
         \E first \in [method : {Direct}, amount : DatedAmounts,
                        timing : Timings(signed_tz, start_tz),
                        supplier : {NoSupplierRef}] :
         \E others \in [2..n -> [method : {Open}, amount : {NaNAmount},
                                  timing : OtherTimings(signed_tz, start_tz),
                                  supplier : {[id |-> S1, name |-> Acme]}]] :
            LET p == [i \in 1..n |-> IF i = 1 THEN first ELSE others[i]]
            IN
            /\ main_csv = main_of(p)
            /\ awards_csv = awards_of(p)
            /\ contracts_csv = contracts_dated(p)
            /\ suppliers_csv = suppliers_of(p)

SpecDates == InitDates /\ [][Next]_vars

\* Runs in which a source file may be missing or may lack a required
\* column, over a small population with timestamps written with an offset.
Statuses == {"ok", "missing", "no_column"}

LoadTimings ==
    {[dateSigned |-> NoTimingRow, period_startDate |-> NoTimingRow],
     [dateSigned |-> DateTextTz(2), period_startDate |-> DateTextTz(1)],
     [dateSigned |-> DateTextTz(2), period_startDate |-> NaNDate],
     [dateSigned |-> BadDate, period_startDate |-> DateTextTz(1)]}

InitLoad ==
    /\ version \in Versions
    /\ sources \in [SourceFiles -> Statuses]
    /\ AppClosed
    /\ PageClosed
    /\ pc = "start"
    /\ merged_df = None
    /\ model_df = <<>>
    /\ processed = NoOutput
    /\ \E n \in 1..MaxDated :
         \E p \in [1..n -> [method : {Direct}, amount : {Float(5000)},
                             timing : LoadTimings,
                             supplier : {[id |-> S1, name |-> Acme]}]] :
            /\ main_csv = main_of(p)
            /\ awards_csv = awards_of(p)
            /\ contracts_csv = contracts_dated(p)
            /\ suppliers_csv = suppliers_of(p)

SpecLoad == InitLoad /\ [][Next]_vars

\* A dashboard session: the artifact is there, is not there, or cannot be
\* unpickled; the pipeline is not running.
ModelFiles == {"ok", "missing", "corrupt"}

PipelineIdle ==
    /\ sources = AllPresent
    /\ main_csv = <<>>
    /\ awards_csv = <<>>
    /\ contracts_csv = <<>>
    /\ suppliers_csv = <<>>
    /\ pc = "start"
    /\ merged_df = None
    /\ model_df = <<>>
    /\ processed = NoOutput

InitApp ==
    /\ version \in Versions
    /\ PipelineIdle
    /\ PageClosed
    /\ strict_page_config \in BOOLEAN
    /\ model_file \in ModelFiles
    /\ model_cache = "empty"
    /\ model = "unset"
    /\ submitted = FALSE
    /\ app_pc = "new"
    /\ predictions = 0

SpecApp == InitApp /\ [][NextApp]_vars

\* The page next to a v3 pipeline run that may fail, crash or succeed;
\* parties.csv is there, is not there, or lacks the id or name column.
InitPage ==
    /\ version = 3
    /\ sources \in {AllPresent, [AllPresent EXCEPT !["main"] = "missing"]}
    /\ AppClosed
    /\ parties_file \in Statuses
    /\ all_data_cache = UnsetFrame
    /\ page_df = UnsetFrame
    /\ page_pc = "new"
    /\ pc = "start"
    /\ merged_df = None
    /\ model_df = <<>>
    /\ processed = NoOutput
    /\ \E n \in 1..MaxDated :
         \E p \in [1..n -> [method : {Direct}, amount : {Float(5000)},
                             timing : LoadTimings,
                             supplier : {[id |-> S1, name |-> Acme]}]] :
            /\ main_csv = main_of(p)
            /\ awards_csv = awards_of(p)
            /\ contracts_csv = contracts_dated(p)
            /\ suppliers_csv = suppliers_of(p)

SpecPage == InitPage /\ [][NextPage]_vars

(***************************************************************************)
(* Properties.                                                             *)
(***************************************************************************)
Linked == pc \in {"merged", "engineered", "saved"}
Engineered == pc \in {"engineered", "saved"}

has_key(table, k) == \E i \in DOMAIN table : table[i]._link_main = k

\* the first row of the file that carries the key
first_row(table, k) ==
    table[CHOOSE i \in DOMAIN table :
             /\ table[i]._link_main = k
             /\ \A j \in 1..(i - 1) : table[j]._link_main # k]

dedup_keeps_first(table) ==
    LET df == drop_duplicates(table)
    IN  /\ \A i, j \in DOMAIN df : df[i]._link_main = df[j]._link_main => i = j
        /\ \A i \in DOMAIN df : df[i] = first_row(table, df[i]._link_main)
        /\ \A i \in DOMAIN table : has_key(df, table[i]._link_main)

\* C1: after deduplication of the award, contract-timing and supplier
\* tables every join key occurs in at most one row, the surviving row of a
\* key is the first row of the file with that key, and it is the row whose
\* values reach the linked table.
C1_DedupFirstSeenWins ==
    /\ dedup_keeps_first(awards_csv)
    /\ dedup_keeps_first(contracts_csv)
    /\ dedup_keeps_first(suppliers_csv)
    /\ Linked =>
         \A i \in DOMAIN merged_df.rows :
            LET r == merged_df.rows[i]
                k == r._link_main
            IN  /\ r.value_amount = first_row(awards_csv, k).value_amount
                /\ version \in {2, 3} /\ has_key(contracts_csv, k) =>
                     /\ r.dateSigned = first_row(contracts_csv, k).dateSigned
                     /\ r.period_startDate =
                            first_row(contracts_csv, k).period_startDate
                /\ version = 3 /\ has_key(suppliers_csv, k) =>
                     /\ r.supplier_id = first_row(suppliers_csv, k).id
                     /\ r.name = first_row(suppliers_csv, k).name
                /\ version = 2 /\ has_key(suppliers_csv, k) =>
                     r.name = (IF isna(first_row(suppliers_csv, k).name) THEN NaN
                               ELSE upper(strip(first_row(suppliers_csv, k).name)))

\* a linked contract whose key repeats in the award file with different
\* amounts, and whose supplier reference is found
C1_Witness ==
    /\ Linked
    /\ version = 3
    /\ \E i \in DOMAIN merged_df.rows :
         LET k == merged_df.rows[i]._link_main
         IN  /\ \E a, b \in DOMAIN awards_csv :
                  /\ a < b
                  /\ awards_csv[a]._link_main = k
                  /\ awards_csv[b]._link_main = k
                  /\ awards_csv[a].value_amount # awards_csv[b].value_amount
             /\ has_key(suppliers_csv, k)
             /\ ~isna(merged_df.rows[i].supplier_id)

awarded(t) == has_key(awards_csv, t._link)

\* C2: a tender is linked only if an award row carries its key, and the
\* left joins with the timing and supplier tables neither add nor remove
\* rows: the linked table has one row per awarded tender row, with the
\* timing and supplier fields missing where no row matches.
C2_InnerJoinThenLeftJoins ==
    Linked =>
      LET rows == merged_df.rows
      IN  /\ \A i \in DOMAIN rows :
                /\ \E t \in DOMAIN main_csv : main_csv[t]._link = rows[i]._link
                /\ has_key(awards_csv, rows[i]._link)
          /\ \A t \in DOMAIN main_csv :
                ~awarded(main_csv[t]) =>
                    \A i \in DOMAIN rows : rows[i]._link # main_csv[t]._link
          /\ Len(rows) =
                Cardinality({t \in DOMAIN main_csv : awarded(main_csv[t])})
          /\ version \in {2, 3} =>
                \A i \in DOMAIN rows :
                   /\ ~has_key(contracts_csv, rows[i]._link_main) =>
                         /\ rows[i].dateSigned = NaNDate
                         /\ rows[i].period_startDate = NaNDate
                   /\ ~has_key(suppliers_csv, rows[i]._link_main) =>
                         isna(rows[i].name)
          /\ version = 3 =>
                \A i \in DOMAIN rows :
                   ~has_key(suppliers_csv, rows[i]._link_main) =>
                         isna(rows[i].supplier_id)

\* one tender without an award, one awarded tender with a timing row and
\* without a supplier reference
C2_Witness ==
    /\ Linked
    /\ version = 3
    /\ \E t \in DOMAIN main_csv : ~awarded(main_csv[t])
    /\ \E i \in DOMAIN merged_df.rows :
         LET k == merged_df.rows[i]._link_main
         IN  /\ ~has_key(suppliers_csv, k)
             /\ isna(merged_df.rows[i].supplier_id)
             /\ has_key(contracts_csv, k)
             /\ merged_df.rows[i].dateSigned # NaNDate

\* C3: the linked table holds at most one row per contract key, also when
\* a key occurs in several rows of the tender table.
C3_OneRowPerContractKey ==
    Linked =>
      \A i, j \in DOMAIN merged_df.rows :
         merged_df.rows[i]._link_main = merged_df.rows[j]._link_main => i = j

\* the resolved supplier identity of a linked row: the normalized name in
\* v2, the stable id in v3; NaN when it is unresolvable
identity(i) ==
    IF version = 2 THEN merged_df.rows[i].name ELSE merged_df.rows[i].supplier_id

same_identity(i) ==
    {j \in DOMAIN merged_df.rows : identity(j) = identity(i)}

\* C4: in v2 and v3 the supplier_award_count of a row with a resolved
\* supplier identity is the number of contracts of the whole linked
\* population with that identity.
C4_AwardCountIsPopulationCount ==
    Engineered /\ version \in {2, 3} =>
      /\ Len(model_df) = Len(merged_df.rows)
      /\ \A i \in DOMAIN model_df :
            ~isna(identity(i)) =>
                model_df[i].supplier_award_count = Cardinality(same_identity(i))

\* four contracts share one supplier id and each reports 4
C4_Witness ==
    /\ Engineered
    /\ version = 3
    /\ Len(model_df) = 4
    /\ \A i \in DOMAIN model_df :
          /\ merged_df.rows[i].supplier_id = S1
          /\ model_df[i].supplier_award_count = 4

\* C5: in v2 and v3 a contract whose supplier identity is unresolvable has
\* supplier_award_count 1, however many contracts are unresolvable.
C5_UnresolvedCountsOne ==
    Engineered /\ version \in {2, 3} =>
      \A i \in DOMAIN model_df :
         isna(identity(i)) => model_df[i].supplier_award_count = 1

\* one contract with a supplier row without a name, one without a supplier
\* row, one resolved
C5_Witness ==
    /\ Engineered
    /\ version = 2
    /\ Len(model_df) = 3
    /\ has_key(suppliers_csv, key_text(1)) /\ isna(identity(1))
    /\ ~has_key(suppliers_csv, key_text(2)) /\ isna(identity(2))
    /\ ~isna(identity(3))
    /\ model_df[1].supplier_award_count = 1
    /\ model_df[2].supplier_award_count = 1

\* the name of the supplier reference of a linked row as the file has it
raw_name(i) ==
    LET k == merged_df.rows[i]._link_main
    IN  IF has_key(suppliers_csv, k) THEN first_row(suppliers_csv, k).name ELSE NaN

same_trimmed_upper(a, b) == upper(strip(a)) = upper(strip(b))

\* C6: in v2 two contracts whose supplier names agree after trimming and
\* upper-casing report the same supplier_award_count, and a contract is
\* counted with exactly the contracts whose names agree with its own so.
C6_NameIdentityIsTrimmedUpper ==
    Engineered /\ version = 2 =>
      \A i \in DOMAIN model_df :
         ~isna(raw_name(i)) =>
            /\ model_df[i].supplier_award_count =
                  Cardinality({j \in DOMAIN model_df :
                                  /\ ~isna(raw_name(j))
                                  /\ same_trimmed_upper(raw_name(i), raw_name(j))})
            /\ \A j \in DOMAIN model_df :
                  ~isna(raw_name(j)) /\ same_trimmed_upper(raw_name(i), raw_name(j))
                     => model_df[i].supplier_award_count
                            = model_df[j].supplier_award_count

\* " Acme" and "ACME" are one supplier with two awards, "beta" another
C6_Witness ==
    /\ Engineered
    /\ version = 2
    /\ Len(model_df) = 3
    /\ raw_name(1) = Acme /\ raw_name(2) = AcmeUpper /\ raw_name(3) = Beta
    /\ model_df[1].supplier_award_count = 2
    /\ model_df[2].supplier_award_count = 2
    /\ model_df[3].supplier_award_count = 1

\* a feature row without the display name kept for the dashboard
without_name(r) == [r EXCEPT !.supplier_name = NaN]

\* the v3 feature table of the run whose supplier file has row i renamed
renamed_run(i, nm) ==
    engineer_features_v3(
        load_and_merge_v3(main_csv, awards_csv, contracts_csv,
                          [suppliers_csv EXCEPT ![i].name = nm]).rows)

\* C7: in v3 the features and the label depend on the supplier through the
\* id alone: renaming the supplier of any supplier reference changes no
\* feature of any row, and a row is counted with the rows of equal id,
\* whatever their names.
C7_FingerprintOnly ==
    Engineered /\ version = 3 =>
      /\ \A i \in DOMAIN suppliers_csv, nm \in IdentNames :
            LET out == renamed_run(i, nm)
            IN  /\ Len(out) = Len(model_df)
                /\ \A k \in DOMAIN model_df :
                      without_name(out[k]) = without_name(model_df[k])
      /\ \A i \in DOMAIN model_df :
            ~isna(model_df[i].supplier_id) =>
               model_df[i].supplier_award_count =
                  Cardinality({j \in DOMAIN model_df :
                                  model_df[j].supplier_id = model_df[i].supplier_id})

\* two contracts of id S1 under different names, and one of id S2 under the
\* name of the first
C7_Witness ==
    /\ Engineered
    /\ version = 3
    /\ Len(model_df) = 3
    /\ model_df[1].supplier_id = S1 /\ model_df[1].supplier_name = Acme
    /\ model_df[2].supplier_id = S1 /\ model_df[2].supplier_name = Beta
    /\ model_df[3].supplier_id = S2 /\ model_df[3].supplier_name = Acme
    /\ model_df[1].supplier_award_count = 2
    /\ model_df[2].supplier_award_count = 2
    /\ model_df[3].supplier_award_count = 1

\* C8: risk_label is 1 exactly when the weighted sum of the row's
\* indicators meets the threshold of the version (in halves: v1
\* 4*direct + 3*round + 2*(missing_data_count >= 1) >= 3; v2 and v3
\* 3*direct + 2*round + 4*timing + 5*new_supplier >= 4).
C8_LabelIsThresholdedScore ==
    Engineered =>
      \A i \in DOMAIN model_df :
         LET r == model_df[i]
         IN  /\ r.risk_label \in {0, 1}
             /\ version = 1 =>
                  (r.risk_label = 1 <=>
                     4 * r.is_direct_procurement + 3 * r.is_round_amount
                       + 2 * (IF r.missing_data_count >= 1 THEN 1 ELSE 0) >= 3)
             /\ version \in {2, 3} =>
                  (r.risk_label = 1 <=>
                     3 * r.is_direct_procurement + 2 * r.is_round_amount
                       + 4 * r.suspicious_timing
                       + 5 * r.new_supplier_direct_deal >= 4)

\* a v3 row whose only flag is the timing one scores exactly 2.0
C8_Witness ==
    /\ Engineered
    /\ version = 3
    /\ \E i \in DOMAIN model_df :
         /\ model_df[i].is_direct_procurement = 0
         /\ model_df[i].is_round_amount = 0
         /\ model_df[i].suspicious_timing = 1
         /\ model_df[i].new_supplier_direct_deal = 0
         /\ model_df[i].risk_label = 1

\* C9: raising one indicator of a row from 0 to 1, the others fixed, lowers
\* neither the risk score nor the risk label.
C9_ScoreMonotone ==
    Engineered =>
      \A i \in DOMAIN model_df :
         LET r == model_df[i]
             d == r.is_direct_procurement
             a == r.is_round_amount
         IN  IF version = 1
             THEN LET m == r.missing_data_count
                      s == risk_score_v1(d, a, m)
                      up(t) == t >= s /\ risk_label_v1(t) >= risk_label_v1(s)
                  IN  /\ d = 0 => up(risk_score_v1(1, a, m))
                      /\ a = 0 => up(risk_score_v1(d, 1, m))
                      /\ m = 0 => up(risk_score_v1(d, a, 1))
             ELSE LET t == r.suspicious_timing
                      n == r.new_supplier_direct_deal
                      s == risk_score_v2(d, a, t, n)
                      up(u) == u >= s /\ risk_label_v2(u) >= risk_label_v2(s)
                  IN  /\ d = 0 => up(risk_score_v2(1, a, t, n))
                      /\ a = 0 => up(risk_score_v2(d, 1, t, n))
                      /\ t = 0 => up(risk_score_v2(d, a, 1, n))
                      /\ n = 0 => up(risk_score_v2(d, a, t, 1))

\* a v2 row with the direct and round flags only: raising the new-supplier
\* flag raises its score from 2.5 to 5.0
C9_Witness ==
    /\ Engineered
    /\ version = 2
    /\ \E i \in DOMAIN model_df :
         /\ model_df[i].is_direct_procurement = 1
         /\ model_df[i].is_round_amount = 1
         /\ model_df[i].suspicious_timing = 0
         /\ model_df[i].new_supplier_direct_deal = 0
         /\ risk_score_v2(1, 1, 0, 1) > risk_score_v2(1, 1, 0, 0)

\* C10: in v2 and v3 new_supplier_direct_deal is 1 exactly when
\* supplier_award_count <= 3 and is_direct_procurement = 1.
C10_NewSupplierDirectDeal ==
    Engineered /\ version \in {2, 3} =>
      \A i \in DOMAIN model_df :
         LET r == model_df[i]
         IN  /\ r.new_supplier_direct_deal \in {0, 1}
             /\ r.new_supplier_direct_deal = 1 <=>
                  (r.supplier_award_count <= 3 /\ r.is_direct_procurement = 1)

\* a direct contract of a supplier with four awards, and a direct contract
\* of a supplier with three
C10_Witness ==
    /\ Engineered
    /\ version \in {2, 3}
    /\ \E i \in DOMAIN model_df :
         /\ model_df[i].is_direct_procurement = 1
         /\ model_df[i].supplier_award_count = 4
         /\ model_df[i].new_supplier_direct_deal = 0

already_deduplicated(table) ==
    \A i, j \in DOMAIN table :
        table[i]._link_main = table[j]._link_main => i = j

dedup_idempotent(table) ==
    LET once == drop_duplicates(table)
    IN  /\ drop_duplicates(once) = once
        /\ already_deduplicated(table) => once = table

\* C17: deduplication is idempotent: deduplicating the deduplicated award,
\* contract-timing or supplier table returns the same rows in the same
\* order, and a table with no repeated key is returned as it is.
C17_DedupIdempotent ==
    /\ dedup_idempotent(awards_csv)
    /\ dedup_idempotent(contracts_csv)
    /\ dedup_idempotent(suppliers_csv)

\* a linked run whose award file repeats one key three times: two rows go
\* in the first pass and none in the second
C17_Witness ==
    /\ Linked
    /\ Len(awards_csv) = 3
    /\ Len(drop_duplicates(awards_csv)) = 1
    /\ Len(merged_df.rows) = 1

\* the orders in which n rows can be laid out
row_orders(n) ==
    {f \in [1..n -> 1..n] : \A i, j \in 1..n : f[i] = f[j] => i = j}

reorder(rows, f) == [i \in DOMAIN rows |-> rows[f[i]]]

\* C20: feature derivation does not depend on the order of the rows: for
\* every permutation of the rows of the linked table, the feature table of
\* the permuted rows is the same permutation of the feature table, so every
\* contract keeps its feature values, supplier_award_count and risk_label.
C20_RowOrderIndependent ==
    Engineered =>
        \A f \in row_orders(Len(merged_df.rows)) :
            LET permuted == reorder(merged_df.rows, f)
            IN  (CASE version = 1 -> engineer_features(permuted)
                   [] version = 2 -> engineer_features_v2(permuted)
                   [] version = 3 -> engineer_features_v3(permuted))
                = reorder(model_df, f)

\* three contracts, the first and the last of one supplier and the middle
\* one of another, so that a reordering moves a repeated supplier's rows
C20_Witness ==
    /\ Engineered
    /\ Len(model_df) = 3
    /\ model_df[1].supplier_award_count = 2
    /\ model_df[2].supplier_award_count = 1
    /\ model_df[3].supplier_award_count = 2

\* the spellings of "direct" in upper and lower case letters
DirectSpellings ==
    {t \in [1..6 -> {"d", "D", "i", "I", "r", "R", "e", "E", "c", "C", "t", "T"}] :
        /\ t[1] \in {"d", "D"} /\ t[2] \in {"i", "I"} /\ t[3] \in {"r", "R"}
        /\ t[4] \in {"e", "E"} /\ t[5] \in {"c", "C"} /\ t[6] \in {"t", "T"}}

\* C12: is_direct_procurement is 1 exactly for the contracts whose
\* procurement method is a spelling of "direct" in any mix of upper and
\* lower case, and 0 for every other method and for a missing one.
C12_DirectIffCaseInsensitiveMatch ==
    Engineered =>
        \A i \in DOMAIN model_df :
            LET method == merged_df.rows[i].tender_procurementMethod
            IN  /\ model_df[i].is_direct_procurement \in {0, 1}
                /\ model_df[i].is_direct_procurement = 1
                       <=> method \in DirectSpellings
                /\ isna(method) => model_df[i].is_direct_procurement = 0

\* a contract whose method is spelt "dIrEcT" is flagged
C12_Witness ==
    /\ Engineered
    /\ merged_df.rows[1].tender_procurementMethod
           = <<"d", "I", "r", "E", "c", "T">>
    /\ model_df[1].is_direct_procurement = 1

\* C13: is_round_amount is 1 exactly for the amounts above 1000 that are a
\* whole number of thousands; 500, 1000 and 1000001 give 0, 1000000 gives 1.
C13_RoundIffAboveThousandAndMultiple ==
    Engineered =>
        \A i \in DOMAIN model_df :
            LET amount == model_df[i].amount
                round == model_df[i].is_round_amount
            IN  /\ round \in {0, 1}
                /\ round = 1 <=>
                       \E k \in 2..(IF amount > 0 THEN amount \div 1000 ELSE 0) :
                           amount = 1000 * k
                /\ amount \in {500, 1000, 1000001} => round = 0
                /\ amount = 1000000 => round = 1

\* a contract of exactly 1000, which is not flagged
C13_Witness ==
    /\ Engineered
    /\ model_df[1].amount = 1000
    /\ model_df[1].is_round_amount = 0

\* the text without its 'KES' labels, commas and spaces, read off in one
\* pass from left to right
RECURSIVE markers_removed(_)
markers_removed(s) ==
    IF Len(s) = 0 THEN <<>>
    ELSE IF Len(s) >= 3 /\ SubSeq(s, 1, 3) = <<"K", "E", "S">>
         THEN markers_removed(SubSeq(s, 4, Len(s)))
    ELSE IF Head(s) \in {",", " "} THEN markers_removed(Tail(s))
    ELSE <<Head(s)>> \o markers_removed(Tail(s))

\* a numeral: digits, with a sign in front or without
numeral(t) ==
    LET body == IF Len(t) > 0 /\ t[1] \in {"+", "-"} THEN Tail(t) ELSE t
    IN  Len(body) > 0 /\ \A i \in DOMAIN body : body[i] \in Digits

\* a numeral below zero
negative_numeral(t) ==
    /\ numeral(t)
    /\ t[1] = "-"
    /\ \E i \in 2..Len(t) : t[i] # "0"

\* C14 as the specification states it: clean_currency returns a
\* non-negative number for every input, so every amount of the feature
\* table is >= 0.
C14_AmountNonNegative ==
    Engineered => \A i \in DOMAIN model_df : model_df[i].amount >= 0

\* C14, amended: the amount is 0 for a missing cell, it has the sign of the
\* cell for a numeric cell, and for a text cell it is below zero exactly when
\* the text without 'KES', commas and spaces is a numeral below zero.
C14_NegativeOnlyFromNegativeInput ==
    Engineered =>
        \A i \in DOMAIN model_df :
            LET x == merged_df.rows[i].value_amount
                amount == model_df[i].amount
            IN  /\ x.kind = "nan" => amount = 0
                /\ x.kind = "float" => (amount >= 0 <=> x.val >= 0)
                /\ x.kind = "str" =>
                       (amount < 0 <=> negative_numeral(markers_removed(x.val)))

\* the text "KES -2,000" gives the amount -2000
C14_Witness ==
    /\ Engineered
    /\ merged_df.rows[1].value_amount
           = Text(<<"K", "E", "S", " ", "-", "2", ",", "0", "0", "0">>)
    /\ model_df[1].amount = 0 - 2000

\* C15: clean_currency returns a value for every cell: 0 for a missing one,
\* the number itself for a numeric one, and 0 for a text that is not a
\* numeral once 'KES', commas and spaces are removed; no run ends in the
\* derivation of the amount.
C15_TotalWithZeroDefault ==
    /\ pc # "crashed"
    /\ Engineered =>
        /\ Len(model_df) = Len(merged_df.rows)
        /\ \A i \in DOMAIN model_df :
            LET x == merged_df.rows[i].value_amount
                amount == model_df[i].amount
            IN  /\ x.kind = "nan" => amount = 0
                /\ x.kind = "float" => amount = x.val
                /\ x.kind = "str" /\ ~numeral(markers_removed(x.val)) =>
                       amount = 0

\* the text "2x000" has digits and is no numeral: the amount is 0
C15_Witness ==
    /\ Engineered
    /\ merged_df.rows[1].value_amount = Text(<<"2", "x", "0", "0", "0">>)
    /\ model_df[1].amount = 0

\* a rendering of a number: an optional 'KES' label, then digits, commas
\* and spaces with at least one digit
is_rendering(t) ==
    LET body == IF Len(t) >= 3 /\ SubSeq(t, 1, 3) = <<"K", "E", "S">>
                THEN SubSeq(t, 4, Len(t)) ELSE t
    IN  /\ \A i \in DOMAIN body : body[i] \in Digits \cup {",", " "}
        /\ \E i \in DOMAIN body : body[i] \in Digits

rendered_number(t) == digits_value(SelectSeq(t, LAMBDA c : c \in Digits))

\* C16: every rendering of a number n (an optional 'KES' label, spaces, the
\* digits with commas between them) gets the amount n, the amount of the
\* bare number n.
C16_RenderingsNormalizeAlike ==
    Engineered =>
        \A i \in DOMAIN model_df :
            LET x == merged_df.rows[i].value_amount
            IN  x.kind = "str" /\ is_rendering(x.val) =>
                    /\ model_df[i].amount = rendered_number(x.val)
                    /\ model_df[i].amount
                          = clean_currency(Float(rendered_number(x.val)))

\* "KES 1,000,000" gives 1000000
C16_Witness ==
    /\ Engineered
    /\ merged_df.rows[1].value_amount
           = Text(<<"K", "E", "S", " ", "1", ",", "0", "0", "0", ",",
                     "0", "0", "0">>)
    /\ model_df[1].amount = 1000000

parses(cell) == cell.kind \in {"date", "date_tz"}

C19_DerivationCompletes ==
    /\ pc # "crashed"
    /\ Engineered =>
        /\ Len(model_df) = Len(merged_df.rows)
        /\ \A i \in DOMAIN model_df :
            LET row == merged_df.rows[i]
            IN  /\ model_df[i].is_direct_procurement
                       = is_direct_procurement(row.tender_procurementMethod)
                /\ row.value_amount.kind = "nan" => model_df[i].amount = 0
                /\ row.value_amount.kind = "str"
                       /\ ~numeral(markers_removed(row.value_amount.val)) =>
                       model_df[i].amount = 0
                /\ version \in {2, 3}
                       /\ (~parses(row.dateSigned) \/ ~parses(row.period_startDate)) =>
                       model_df[i].suspicious_timing = 0

\* C18: a run is all-or-nothing: with a required file missing or a required
\* column absent the run stops in the loader and there is no output table;
\* a run that has loaded goes on to write, and the table it writes is the
\* whole feature table, one record per linked contract.
C18_AllOrNothing ==
    /\ read_csv_raises(version, sources) =>
           pc \in {"start", "failed"} /\ ~processed.exists
    /\ processed.exists =>
           /\ processed.rows = model_df
           /\ Len(processed.rows) = Len(merged_df.rows)
    /\ ~merged_df.is_none => pc # "crashed"

\* C23: in v1 the missing-data indicator never decides the label: the
\* risk_label of a contract is 1 exactly when is_direct_procurement or
\* is_round_amount is 1, whatever its missing_data_count.
C23_MissingDataNeverDecides ==
    Engineered /\ version = 1 =>
        \A i \in DOMAIN model_df :
            /\ model_df[i].risk_label \in {0, 1}
            /\ model_df[i].risk_label = 1 <=>
                   \/ model_df[i].is_direct_procurement = 1
                   \/ model_df[i].is_round_amount = 1

\* a v1 contract with a missing amount and neither flag, labelled 0
C23_Witness ==
    /\ Engineered
    /\ version = 1
    /\ model_df[1].missing_data_count >= 1
    /\ model_df[1].is_direct_procurement = 0
    /\ model_df[1].is_round_amount = 0
    /\ model_df[1].risk_label = 0

\* C21: when the model artifact cannot be loaded, load_model yields no
\* model, no form submission invokes a prediction from then on, and the
\* script runs through to its non-predicting end: no run of the app ends in
\* an exception.
C21_FailedLoadDegrades ==
    /\ [][app_pc = "load" /\ app_pc' = "page_config"
             /\ model_cache = "empty" /\ model_file # "ok"
           => model' = "None"]_vars
    /\ [][model_cache = "None" => predictions' = predictions]_vars
    /\ [](app_pc # "exception")

\* the page has gone through its body
PageDone == page_pc \in {"selection", "unavailable", "exception"}

\* C22: whenever load_all_data fails (no feature table, no parties.csv, or
\* parties.csv without its id or name column) the page takes the "main
\* database could not be loaded" branch and the supplier selection and
\* dossier code does not run on the failed result.
C22_FailedLoadTakesUnavailableBranch ==
    PageDone /\ page_df.kind # "DataFrame" => page_pc = "unavailable"
====
